---- MODULE Spec2Model ----
(***************************************************************************)
(* A model of the capture pipeline of archive-lite (package storage).      *)
(*                                                                         *)
(* The repository holds two builds of package storage:                     *)
(*   "assets" : src/unnamed/part_004 lines 204-750 (redirect resolution,   *)
(*              rate-limited fetching, asset localisation);                *)
(*   "shot"   : src/unnamed/part_004 lines 1-202 (plain fetch, headless    *)
(*              browser screenshot).                                       *)
(* They declare the same package-level names, so a running program is one  *)
(* or the other: the build is chosen in Init and never changes.            *)
(*                                                                         *)
(* Each member of Procs is one invocation of ArchiveURL (the service runs  *)
(* one goroutine per HTTP request).  Spec runs the invocations one after   *)
(* the other, ConcSpec runs them concurrently.  SeqSpec, OneSpec, DupSpec  *)
(* and LiveSpec are smaller pipelines; FnSpec calls the pure functions,    *)
(* ServeSpec and ApiSpec add the HTTP handlers.                            *)
(* Time is discrete, one tick per second.                                  *)
(***************************************************************************)
EXTENDS Integers, Sequences, FiniteSets, TLC

VARIABLES
    version,          \* which build of package storage runs
    now,              \* time.Now(), in seconds
    lastRequestTime,  \* package variable lastRequestTime; Zero = zero time.Time
    files,            \* the file system: path -> content
    entries,          \* the archive_entries table
    nextUUID,         \* source of fresh uuid.New() values
    cap,              \* per invocation: program counter and locals of ArchiveURL
    txLog,            \* history: the last two requests issued after waitBetweenRequests
    outLog,           \* history: the last two outbound HTTP requests of any kind
    fn,               \* the last call of one of the package's pure functions
    reply             \* the last response of one of the retrieval handlers

vars == <<version, now, lastRequestTime, files, entries, nextUUID, cap, txLog, outLog, fn, reply>>

-----------------------------------------------------------------------------
(* Bounds of the model *)

MaxTime == 7

Procs == {"c1", "c2"}

(* Program constants *)

requestDelay == 2

primeSleep == 1

StatusOK == 200

Zero == 0

-----------------------------------------------------------------------------
(* URLs.  A URL is the record of the parts the code looks at: its host, a   *)
(* marker word in its path ("" when none) and the value of its "url" query *)
(* parameter (a sequence holding at most one URL).                          *)

MkURL(h, m, qs) == [host |-> h, mark |-> m, q |-> qs]

PageURL == MkURL("example.com", "", <<>>)

SorryURL == MkURL("www.google.com", "sorry", <<>>)

CaptchaURL == MkURL("example.com", "captcha", <<>>)

GNewsURL == MkURL("news.google.com", "", <<>>)

GNewsQURL == MkURL("news.google.com", "", <<PageURL>>)

ShortURL == MkURL("t.co", "", <<>>)

NoURLYet == MkURL("", "", <<>>)

CallerURLs == {PageURL, GNewsURL, GNewsQURL, ShortURL}

Range(s) == {s[i] : i \in DOMAIN s}

\* The words that occur in the text of u; a percent-encoded query value keeps
\* its letters and dots, so its words occur in the text as well.
Tokens(u) == {u.host, u.mark} \cup UNION {{v.host, v.mark} : v \in Range(u.q)}

\* strings.Contains(u, s) for the words the code searches for
Contains(u, s) == s \in Tokens(u)

\* The condition under which ArchiveURL attempts redirect resolution
NeedsResolve(u) ==
    \/ Contains(u, "news.google.com")
    \/ Contains(u, "t.co")
    \/ Contains(u, "bit.ly")
    \/ Contains(u, "tinyurl.com")

\* Where the HTTP client may end after following redirects from u
Landings(u) == {u, PageURL, SorryURL, CaptchaURL}

Ok(u) == [err |-> FALSE, url |-> u]

Err == [err |-> TRUE, url |-> NoURLYet]

\* What client.Do did with a redirect-following GET: it failed, or the URL
\* of the final request
NetErr == [neterr |-> TRUE, final |-> NoURLYet]

Landed(u) == [neterr |-> FALSE, final |-> u]

RedirectOutcomes(u) == {NetErr} \cup {Landed(v) : v \in Landings(u)}

\* A URL text u that holds, somewhere in its path, the characters e: "+",
\* "%20" (a percent sign followed by two hex digits), "%" (a percent sign
\* followed by no two hex digits) or " "
Escaped(u, e) == [host |-> u.host, mark |-> u.mark, q |-> u.q, esc |-> e]

\* url.QueryUnescape: "+" and "%20" become a space, a percent sign without
\* two hex digits is an error, any other text is returned as it is
QueryUnescape(v) ==
    IF "esc" \notin DOMAIN v THEN Ok(v)
    ELSE CASE v.esc \in {"+", "%20"} -> Ok([v EXCEPT !.esc = " "])
           [] v.esc = "%" -> Err
           [] OTHER -> Ok(v)

\* Variant of resolveRedirectsWithReferer without the test of line 326
C10_NoBlockTest(outcome) == IF outcome.neterr THEN Err ELSE Ok(outcome.final)

\* resolveRedirectsWithReferer, lines 317-330
resolveRedirectsWithReferer(outcome) ==
    IF outcome.neterr THEN Err
    ELSE IF Contains(outcome.final, "sorry") \/ Contains(outcome.final, "captcha") THEN Err
    ELSE Ok(outcome.final)

\* extractFinalURLFromGoogleNews, lines 346-364, for an aggregator link u
\* whose GET returned r: the URL it returns (ret), or the fall through to
\* line 367.  u.q is what parsedURL.Query().Get("url") returns, the value of
\* the parameter decoded once; line 359 decodes that value again.
GNewsStep(u, r) ==
    IF ~r.err /\ ~Contains(r.url, "news.google.com") /\ ~Contains(r.url, "sorry")
    THEN [ret |-> TRUE, url |-> r.url]
    ELSE IF u.q # <<>> /\ ~QueryUnescape(u.q[1]).err
    THEN [ret |-> TRUE, url |-> QueryUnescape(u.q[1]).url]
    ELSE [ret |-> FALSE, url |-> NoURLYet]

-----------------------------------------------------------------------------
(* HTML bodies and assets.  A body is the sequence of its nodes: text, or   *)
(* an element with the attribute that names a sub-resource.  An attribute  *)
(* value is the record of its scheme ("" for a relative reference), host,  *)
(* path without extension, and extension; the empty value has all empty.   *)

MkRef(s, h, p, e) == [scheme |-> s, host |-> h, path |-> p, ext |-> e]

NoRef == MkRef("", "", "", "")

TextNode == [tag |-> "#text", val |-> NoRef]

Elem(t, v) == [tag |-> t, val |-> v]

AbsPng == MkRef("http", "cdn.example.com", "/a", ".png")

RelJs == MkRef("", "", "/b", ".js")

DataRef == MkRef("data", "", "AAAA", "")

EmptyBody == <<>>

TextBody == <<TextNode>>

OneAssetBody == <<TextNode, Elem("img", AbsPng)>>

TwoAssetBody == <<Elem("script", RelJs), Elem("img", DataRef), Elem("img", AbsPng)>>

Bodies == {EmptyBody, TextBody, OneAssetBody, TwoAssetBody}

\* resolveURL: NoRef stands for the "" it returns for a skipped reference
resolveURL(base, rel) ==
    IF rel = NoRef THEN NoRef
    ELSE IF rel.scheme \in {"data", "http", "https"}
         THEN IF rel.scheme \in {"http", "https"} THEN rel ELSE NoRef
    ELSE MkRef("http", base.host, rel.path, rel.ext)

AssetTags == {"link", "script", "img", "iframe"}

RECURSIVE extractAssets(_, _)
extractAssets(nodes, base) ==
    IF nodes = <<>> THEN <<>>
    ELSE LET n == Head(nodes)
             r == resolveURL(base, n.val)
             rest == extractAssets(Tail(nodes), base)
         IN IF n.tag \in AssetTags /\ r # NoRef
            THEN <<r>> \o rest
            ELSE rest

\* s without the later occurrences of its elements
RECURSIVE C29_Uniq(_)
C29_Uniq(s) ==
    IF s = <<>> THEN <<>>
    ELSE <<Head(s)>> \o C29_Uniq(SelectSeq(Tail(s), LAMBDA x : x # Head(s)))

\* Variant of the extraction that takes every resolved URL once
C29_ExtractOnce(htmlContent, baseURL) == C29_Uniq(extractAssets(htmlContent, baseURL))

\* html.Parse over an in-memory reader returns no error, so the error
\* returns of extractAssetsFromHTML and modifyHTMLPaths are never taken.
extractAssetsFromHTML(htmlContent, baseURL) == extractAssets(htmlContent, baseURL)

\* The first 8 hex digits of the MD5 of the URL text, for the asset URLs
\* that occur (scheme://host/path.ext)
Hash8(u) ==
    CASE u = MkRef("http", "cdn.example.com", "/a", ".png") -> "5831c821"
      [] u = MkRef("http", "example.com", "/b", ".js") -> "e95016f7"
      [] u = MkRef("http", "news.google.com", "/b", ".js") -> "66224edd"
      [] u = MkRef("http", "t.co", "/b", ".js") -> "8f27d6c2"
      [] OTHER -> "00000000"

\* The modelled asset URLs all carry an extension in their path, so the
\* substring guesses for an empty filepath.Ext are not reached.
generateAssetFileName(assetURL, entryUUID) ==
    entryUUID \o "_" \o Hash8(assetURL) \o assetURL.ext

rawHTMLDir == "data/raw"

assetsDir == "data/assets"

screenshotsDir == "data/screenshots"

Join(dir, name) == dir \o "/" \o name

LocalRef(name) == MkRef("local", "", "/data/assets/" \o name, "")

\* What html.Render adds around the nodes of a parsed document
HeadNode == [tag |-> "head", val |-> NoRef]

\* Variant of the rewrite that names the file after the attribute as written
C14_NameUnresolved(n, entryUUID, baseURL) ==
    IF n.tag \in AssetTags /\ resolveURL(baseURL, n.val) # NoRef
    THEN [n EXCEPT !.val = LocalRef(generateAssetFileName(n.val, entryUUID))]
    ELSE n

modifyNode(n, entryUUID, baseURL) ==
    LET resolvedURL == resolveURL(baseURL, n.val)
    IN IF n.tag \in AssetTags /\ resolvedURL # NoRef
       THEN [n EXCEPT !.val = LocalRef(generateAssetFileName(resolvedURL, entryUUID))]
       ELSE n

modifyHTMLPaths(htmlContent, entryUUID, baseURL) ==
    <<HeadNode>> \o [k \in DOMAIN htmlContent |-> modifyNode(htmlContent[k], entryUUID, baseURL)]

-----------------------------------------------------------------------------
(* Asset content: sequences of bytes *)

PngBytes == <<137, 80, 78, 71>>

JpegBytes == <<255, 216, 255, 224>>

TextBytes == <<104, 105>>

CtrlBytes == <<0, 1>>

Contents == {<<>>, PngBytes}

ScanLimit == 500

min(a, b) == IF a < b THEN a ELSE b

\* strings.ToLower on the extensions that occur
ToLower(ext) ==
    CASE ext = ".JS" -> ".js"
      [] ext = ".CSS" -> ".css"
      [] OTHER -> ext

RuneError == 65533

\* The rune that range yields for a byte of the string: the byte itself for
\* ASCII; a byte above 127 is part of a longer rune or yields RuneError,
\* in both cases a rune above 127
RuneOf(b) == IF b > 127 THEN RuneError ELSE b

\* The test of line 734 on one rune, as written
Suspicious(r) == r > 127 /\ r < 32 /\ r # 10 /\ r # 13 /\ r # 9

\* Variant of validateAssetContent that trusts only images and text types
C16_KnownTypesOnly(content, assetURL) ==
    /\ Len(content) >= 4
    /\ \/ content[1] \in {137, 255, 71}
       \/ ToLower(assetURL.ext) \in {".css", ".js"}

validateAssetContent(content, assetURL) ==
    IF Len(content) = 0 THEN FALSE
    ELSE IF Len(content) >= 4 /\
            \/ content[1] = 137 /\ content[2] = 80 /\ content[3] = 78 /\ content[4] = 71
            \/ content[1] = 255 /\ content[2] = 216
            \/ content[1] = 71 /\ content[2] = 73 /\ content[3] = 70
         THEN TRUE
    ELSE IF ToLower(assetURL.ext) \in {".css", ".js"}
         THEN \A k \in 1..min(ScanLimit, Len(content)) : ~Suspicious(RuneOf(content[k]))
    ELSE TRUE

-----------------------------------------------------------------------------
(* The file system *)

NoFiles == [x \in {} |-> <<>>]

Exists(fs, path) == path \in DOMAIN fs

\* os.WriteFile: "ok"; "fail" (the file could not be opened, nothing is
\* created); "partial" (created or truncated, then the write failed)
WriteOutcomes == {"ok", "fail", "partial"}

WriteFile(fs, path, data, outcome) ==
    CASE outcome = "ok" -> (path :> data) @@ fs
      [] outcome = "partial" -> (path :> <<>>) @@ fs
      [] OTHER -> fs

\* os.Remove: on success the path is gone; on failure nothing changes
Remove(fs, path, rmOk) ==
    IF rmOk THEN [x \in DOMAIN fs \ {path} |-> fs[x]] ELSE fs

\* Variant of the HTML file name that does not depend on the capture
C6_SharedPath(entryUUID) == Join(rawHTMLDir, "page.html")

htmlFilePath(entryUUID) == Join(rawHTMLDir, entryUUID \o ".html")

screenshotFilePath(entryUUID) == Join(screenshotsDir, entryUUID \o ".jpg")

assetFilePath(assetURL, entryUUID) == Join(assetsDir, generateAssetFileName(assetURL, entryUUID))

\* Variant of uuid.New that hands out one id to every capture
C21_OneID(n) == "u0"

NewUUID(n) == "u" \o ToString(n)

-----------------------------------------------------------------------------
(* State of one invocation of ArchiveURL *)

NoResult == [kind |-> "none", code |-> 0, removed |-> FALSE]

Result(k, c, r) == [kind |-> k, code |-> c, removed |-> r]

Idle ==
    [pc |-> "idle",
     urlToArchive |-> NoURLYet,   \* the caller's URL
     finalURL |-> NoURLYet,
     entryUUID |-> "",
     htmlContent |-> <<>>,
     assets |-> <<>>,
     i |-> 0,                     \* index in assets of the asset being fetched
     ret |-> "",                  \* which request waitBetweenRequests precedes
     seen |-> Zero,               \* lastRequestTime as waitBetweenRequests read it
     slept |-> FALSE,             \* whether waitBetweenRequests called time.Sleep
     wake |-> 0,                  \* when the current time.Sleep ends
     result |-> NoResult,         \* what ArchiveURL returned
     \* history
     status |-> 0,                \* status of the primary fetch's response
     fetchedURL |-> NoURLYet,     \* the URL the primary fetch was issued to
     wrote |-> {},                \* the paths this invocation created
     degraded |-> {},             \* the best-effort steps that failed
     invalid |-> {},              \* the asset URLs whose content failed validation
     run |-> "",                  \* what the browser task of CaptureSPA did
     htmlTries |-> 0,             \* requests sent for the page
     assetTries |-> <<>>,         \* the index in assets of each asset request sent
     shotTries |-> 0,             \* calls of CaptureSPA
     creates |-> 0]               \* successful db.Create calls

\* No pure function has been called, no retrieval has been answered
NoCall == [op |-> "none"]

NoReply == [handler |-> "none"]

Init ==
    /\ version \in {"assets", "shot"}
    /\ now = 1
    /\ lastRequestTime = Zero
    /\ files = NoFiles
    /\ entries = {}
    /\ nextUUID = 1
    /\ cap = [p \in Procs |-> Idle]
    /\ txLog = <<>>
    /\ outLog = <<>>
    /\ fn = NoCall
    /\ reply = NoReply

Req(p, kind, seen, slept, stamped) ==
    [p |-> p, kind |-> kind, t |-> now, seen |-> seen, slept |-> slept, stamped |-> stamped]

Push(log, e) == IF Len(log) < 2 THEN Append(log, e) ELSE <<log[2], e>>

\* ArchiveURL returns res; its locals are gone, the history stays
Done(c, res) ==
    [c EXCEPT !.pc = "done", !.result = res,
              !.assets = <<>>, !.i = 0, !.ret = "", !.seen = Zero, !.slept = FALSE, !.wake = 0]

\* Wrote(c, fs, path): c with path recorded if the write created it
Wrote(c, path, outcome) ==
    IF outcome \in {"ok", "partial"} THEN [c EXCEPT !.wrote = @ \cup {path}] ELSE c

\* Time passes.  The program reads the clock only in waitBetweenRequests and
\* in time.Sleep, so a tick is taken only while it can be observed: while a
\* sleep is pending, or while lastRequestTime is less than requestDelay old.
Tick ==
    /\ now < MaxTime
    /\ \/ \E p \in Procs : cap[p].pc \in {"w_sleep", "prime_sleep"} /\ cap[p].wake > now
       \/ lastRequestTime # Zero /\ now - lastRequestTime < requestDelay
    /\ now' = now + 1
    /\ UNCHANGED <<fn, reply, version, lastRequestTime, files, entries, nextUUID, cap, txLog, outLog>>

-----------------------------------------------------------------------------
(* waitBetweenRequests, in its three steps: read, sleep, write *)

\* Variants of the sleep computed on line 271: none, and half the delay
C7_NoSleep(elapsed) == 0

C9_HalfDelay(elapsed) == IF 2 * elapsed < requestDelay THEN 1 ELSE 0

SleepFor(elapsed) == IF elapsed < requestDelay THEN requestDelay - elapsed ELSE 0

\* lines 269-272: the read of lastRequestTime and the decision to sleep.
\* A racing read of the multi-word time.Time yields the value before or
\* after the racing write, or a mix of a zero and a non-zero value, which
\* time.Since turns into an elapsed time of more than requestDelay: the same
\* outcome as reading the zero value.
WaitRead(p) ==
    /\ cap[p].pc = "w_read"
    /\ LET elapsed == now - lastRequestTime
           d == IF lastRequestTime # Zero THEN SleepFor(elapsed) ELSE 0
       IN cap' = [cap EXCEPT ![p] =
                    [@ EXCEPT !.seen = lastRequestTime,
                              !.slept = d > 0,
                              !.wake = now + d,
                              !.pc = IF d > 0 THEN "w_sleep" ELSE "w_stamp"]]
    /\ UNCHANGED <<fn, reply, version, now, lastRequestTime, files, entries, nextUUID, txLog, outLog>>

\* line 272: time.Sleep returns no sooner than after the duration
WaitWake(p) ==
    /\ cap[p].pc = "w_sleep"
    /\ now >= cap[p].wake
    /\ cap' = [cap EXCEPT ![p].pc = "w_stamp"]
    /\ UNCHANGED <<fn, reply, version, now, lastRequestTime, files, entries, nextUUID, txLog, outLog>>

\* line 275, and the request the caller then sends with client.Do
WaitStamp(p) ==
    /\ cap[p].pc = "w_stamp"
    /\ lastRequestTime' = now
    /\ LET e == Req(p, cap[p].ret, cap[p].seen, cap[p].slept, TRUE)
       IN /\ txLog' = Push(txLog, e)
          /\ outLog' = Push(outLog, e)
    /\ cap' = [cap EXCEPT ![p] =
                 [@ EXCEPT !.pc = cap[p].ret \o "_resp",
                           !.fetchedURL = IF cap[p].ret = "html" THEN cap[p].finalURL ELSE @,
                           !.htmlTries = IF cap[p].ret = "html" THEN @ + 1 ELSE @,
                           !.assetTries = IF cap[p].ret = "asset" THEN Append(@, cap[p].i) ELSE @]]
    /\ UNCHANGED <<fn, reply, version, now, files, entries, nextUUID>>

\* Enter waitBetweenRequests on behalf of request kind
CallWait(c, kind) == [c EXCEPT !.pc = "w_read", !.ret = kind]

-----------------------------------------------------------------------------
(* What the network, the file system and the database may answer *)

Statuses == {200, 204, 404, 500}

Response(f, s, b) == [fail |-> f, status |-> s, body |-> b]

\* fail: "net" (client.Do failed), "read" (the body could not be read or
\* decompressed), "none"
HTMLResponses(bodies) ==
    {Response("net", 0, <<>>), Response("read", StatusOK, <<>>)}
    \cup {Response("none", s, <<>>) : s \in Statuses \ {StatusOK}}
    \cup {Response("none", StatusOK, b) : b \in bodies}

AssetResponses ==
    {Response("net", 0, <<>>), Response("none", 404, <<>>)}
    \cup {Response("none", StatusOK, c) : c \in Contents}

\* Variant of the fetch functions without the status test
C3_NoStatusTest(status) == FALSE

\* line 387 (and 427, 134): the status test of the fetch functions
StatusIsError(status) == status # StatusOK

\* FetchRawHTML and FetchAsset after client.Do: the error they return
\* (with the status code it carries, 0 when it carries none) or the body
Fetched(resp) ==
    IF resp.fail = "net" THEN [err |-> TRUE, code |-> 0, body |-> <<>>]
    ELSE IF StatusIsError(resp.status) THEN [err |-> TRUE, code |-> resp.status, body |-> <<>>]
    ELSE IF resp.fail = "read" THEN [err |-> TRUE, code |-> 0, body |-> <<>>]
    ELSE [err |-> FALSE, code |-> 0, body |-> resp.body]

NoPath == ""

\* Variant of line 668 that stores the caller's URL
C11_CallerURL(p, url, storagePath, shotPath) ==
    [ID |-> Cardinality(entries) + 1, URL |-> cap[p].urlToArchive,
     StoragePath |-> storagePath, ScreenshotPath |-> shotPath, by |-> p]

\* Variant of the record whose key does not change from one capture to the next
C22_KeyByURL(p, url, storagePath, shotPath) ==
    [ID |-> 1, URL |-> url, StoragePath |-> storagePath, ScreenshotPath |-> shotPath, by |-> p]

\* ID: the auto-increment key of gorm.Model that db.Create assigns
\* by: history, the invocation that created the record
Entry(p, url, storagePath, shotPath) ==
    [ID |-> Cardinality(entries) + 1, URL |-> url, StoragePath |-> storagePath,
     ScreenshotPath |-> shotPath, by |-> p]

\* Variant of ArchiveURL without os.Remove (as in src/unnamed/part_003)
C2_KeepFile(fs, path, rmOk) == fs

\* lines 676 and 198: what ArchiveURL does to the files when db.Create failed
CreateFailed(fs, path, rmOk) == Remove(fs, path, rmOk)

\* Variant of the test of lines 661 and 186 that drops the error
C5_IgnoreWriteError(wr) == FALSE

\* lines 661 and 186: os.WriteFile returned an error
WriteFailed(wr) == wr # "ok"

-----------------------------------------------------------------------------
(* ArchiveURL of the assets build, part_004 lines 588-681 *)

\* lines 589-606 up to the first request: EnsureStorageDirs, and the choice
\* of the resolution path
A_Start(p, u, dirsOk) ==
    /\ version = "assets"
    /\ cap[p].pc = "idle"
    /\ LET c == [cap[p] EXCEPT !.urlToArchive = u, !.finalURL = u]
       IN cap' = [cap EXCEPT ![p] =
                    IF ~dirsOk THEN Done(c, Result("DirsErr", 0, FALSE))
                    ELSE IF ~NeedsResolve(u) THEN CallWait(c, "html")
                    ELSE IF Contains(u, "news.google.com") THEN [c EXCEPT !.pc = "prime"]
                    ELSE [c EXCEPT !.pc = "resolve"]]
    /\ UNCHANGED <<fn, reply, version, now, lastRequestTime, files, entries, nextUUID, txLog, outLog>>

\* primeGoogleCookies, lines 684-704: a request with no waitBetweenRequests;
\* on success it sleeps primeSleep, on failure it returns at once
A_Prime(p, ok) ==
    /\ cap[p].pc = "prime"
    /\ outLog' = Push(outLog, Req(p, "prime", Zero, FALSE, FALSE))
    /\ cap' = [cap EXCEPT ![p] =
                 IF ok THEN [@ EXCEPT !.pc = "prime_sleep", !.wake = now + primeSleep]
                 ELSE CallWait(@, "gnews")]
    /\ UNCHANGED <<fn, reply, version, now, lastRequestTime, files, entries, nextUUID, txLog>>

\* line 701 returns; line 343
A_PrimeWake(p) ==
    /\ cap[p].pc = "prime_sleep"
    /\ now >= cap[p].wake
    /\ cap' = [cap EXCEPT ![p] = CallWait(@, "gnews")]
    /\ UNCHANGED <<fn, reply, version, now, lastRequestTime, files, entries, nextUUID, txLog, outLog>>

\* extractFinalURLFromGoogleNews, lines 346-364, once the aggregator GET
\* (issued in WaitStamp) has answered
A_GNewsResp(p, outcome) ==
    /\ cap[p].pc = "gnews_resp"
    /\ LET g == GNewsStep(cap[p].urlToArchive, resolveRedirectsWithReferer(outcome))
       IN cap' = [cap EXCEPT ![p] =
                    IF g.ret THEN CallWait([@ EXCEPT !.finalURL = g.url], "html")
                    ELSE [@ EXCEPT !.pc = "resolve"]]
    /\ UNCHANGED <<fn, reply, version, now, lastRequestTime, files, entries, nextUUID, txLog, outLog>>

\* resolveRedirects (line 367) and lines 600-605: a request with no
\* waitBetweenRequests; on error the original URL is kept
A_Resolve(p, outcome) ==
    /\ cap[p].pc = "resolve"
    /\ outLog' = Push(outLog, Req(p, "resolve", Zero, FALSE, FALSE))
    /\ LET r == resolveRedirectsWithReferer(outcome)
       IN cap' = [cap EXCEPT ![p] =
                    IF r.err
                    THEN CallWait([@ EXCEPT !.degraded = @ \cup {"resolve"}], "html")
                    ELSE CallWait([@ EXCEPT !.finalURL = r.url], "html")]
    /\ UNCHANGED <<fn, reply, version, now, lastRequestTime, files, entries, nextUUID, txLog>>

\* Variant of the loop in which a failed asset ends the loop (break)
C12_BreakOnAsset(c) ==
    IF c.i < Len(c.assets) /\ "asset" \notin c.degraded
    THEN CallWait([c EXCEPT !.i = @ + 1], "asset")
    ELSE [c EXCEPT !.pc = "write_html", !.i = Len(c.assets) + 1]

\* Variant of the loop that asks once more for an asset that failed
C20_RetryAsset(c) ==
    IF "asset" \in c.degraded /\ c.i >= 1 /\ Len(c.assetTries) = c.i
    THEN CallWait(c, "asset")
    ELSE IF c.i < Len(c.assets) THEN CallWait([c EXCEPT !.i = @ + 1], "asset")
    ELSE [c EXCEPT !.pc = "write_html", !.i = Len(c.assets) + 1]

\* Variant of the loop that starts over after the last reference
C30_StartOver(c) ==
    IF c.i < Len(c.assets) THEN CallWait([c EXCEPT !.i = @ + 1], "asset")
    ELSE IF Len(c.assets) > 0 THEN CallWait([c EXCEPT !.i = 1], "asset")
    ELSE [c EXCEPT !.pc = "write_html", !.i = Len(c.assets) + 1]

\* Variant of the loop in which a failed asset ends the capture
C4_AbortOnAsset(c) ==
    IF "asset" \in c.degraded THEN Done(c, Result("AssetErr", 0, FALSE))
    ELSE IF c.i < Len(c.assets) THEN CallWait([c EXCEPT !.i = @ + 1], "asset")
    ELSE [c EXCEPT !.pc = "write_html", !.i = Len(c.assets) + 1]

\* After the loop body for asset i (lines 624-650, every failure ends in
\* continue): the next asset, or the rewrite
NextAsset(c) ==
    IF c.i < Len(c.assets) THEN CallWait([c EXCEPT !.i = @ + 1], "asset")
    ELSE [c EXCEPT !.pc = "write_html", !.i = Len(c.assets) + 1]

\* lines 609-623: FetchRawHTML returns; uuid.New; extractAssetsFromHTML
A_HTMLResp(p, resp) ==
    /\ cap[p].pc = "html_resp"
    /\ LET f == Fetched(resp)
           c == [cap[p] EXCEPT !.status = resp.status]
       IN IF f.err
          THEN /\ cap' = [cap EXCEPT ![p] = Done(c, Result("FetchErr", f.code, FALSE))]
               /\ UNCHANGED nextUUID
          ELSE /\ cap' = [cap EXCEPT ![p] =
                            NextAsset([c EXCEPT !.entryUUID = NewUUID(nextUUID),
                                                !.htmlContent = f.body,
                                                !.assets = extractAssetsFromHTML(f.body, c.finalURL),
                                                !.i = 0])]
               /\ nextUUID' = nextUUID + 1
    /\ UNCHANGED <<fn, reply, version, now, lastRequestTime, files, entries, txLog, outLog>>

\* Variant of the loop body without the validation of lines 634-638
C13_SaveUnvalidated(f, assetURL) == ~f.err

\* lines 627-638: the asset was fetched and its content is valid, so that
\* the loop body goes on to os.WriteFile
AssetAccepted(f, assetURL) == ~f.err /\ validateAssetContent(f.body, assetURL)

\* lines 627-649: FetchAsset returns; validateAssetContent; os.WriteFile
A_AssetResp(p, resp, wr) ==
    /\ cap[p].pc = "asset_resp"
    /\ LET c == cap[p]
           assetURL == c.assets[c.i]
           f == Fetched(resp)
           path == assetFilePath(assetURL, c.entryUUID)
           bad == ~f.err /\ ~validateAssetContent(f.body, assetURL)
           seen == IF bad THEN [c EXCEPT !.invalid = @ \cup {assetURL}] ELSE c
           skip == [seen EXCEPT !.degraded = @ \cup {"asset"}]
       IN IF ~AssetAccepted(f, assetURL)
          THEN /\ cap' = [cap EXCEPT ![p] = NextAsset(skip)]
               /\ UNCHANGED files
          ELSE /\ files' = WriteFile(files, path, f.body, wr)
               /\ cap' = [cap EXCEPT ![p] =
                            NextAsset(Wrote(IF wr = "ok" THEN seen ELSE skip, path, wr))]
    /\ UNCHANGED <<fn, reply, version, now, lastRequestTime, entries, nextUUID, txLog, outLog>>

\* lines 652-663: modifyHTMLPaths and the write of the HTML file
A_WriteHTML(p, wr) ==
    /\ cap[p].pc = "write_html"
    /\ LET c == cap[p]
           modifiedHTML == modifyHTMLPaths(c.htmlContent, c.entryUUID, c.finalURL)
           path == htmlFilePath(c.entryUUID)
       IN /\ files' = WriteFile(files, path, modifiedHTML, wr)
          /\ cap' = [cap EXCEPT ![p] =
                       IF WriteFailed(wr)
                       THEN Done(Wrote(c, path, wr), Result("WriteErr", 0, FALSE))
                       ELSE [Wrote(c, path, wr) EXCEPT !.pc = "persist"]]
    /\ UNCHANGED <<fn, reply, version, now, lastRequestTime, entries, nextUUID, txLog, outLog>>

\* lines 667-680: db.Create, and os.Remove when it failed
A_Persist(p, dbOk, rmOk) ==
    /\ cap[p].pc = "persist"
    /\ LET c == cap[p]
           path == htmlFilePath(c.entryUUID)
       IN IF dbOk
          THEN /\ entries' = entries \cup {Entry(p, c.finalURL, path, NoPath)}
               /\ cap' = [cap EXCEPT ![p] =
                            Done([c EXCEPT !.creates = @ + 1], Result("ok", 0, FALSE))]
               /\ UNCHANGED files
          ELSE /\ files' = CreateFailed(files, path, rmOk)
               /\ cap' = [cap EXCEPT ![p] = Done(c, Result("PersistErr", 0, rmOk))]
               /\ UNCHANGED entries
    /\ UNCHANGED <<fn, reply, version, now, lastRequestTime, nextUUID, txLog, outLog>>

-----------------------------------------------------------------------------
(* ArchiveURL of the shot build, part_004 lines 178-202 *)

\* line 179
S_Start(p, u, dirsOk) ==
    /\ version = "shot"
    /\ cap[p].pc = "idle"
    /\ LET c == [cap[p] EXCEPT !.urlToArchive = u, !.finalURL = u]
       IN cap' = [cap EXCEPT ![p] =
                    IF ~dirsOk THEN Done(c, Result("DirsErr", 0, FALSE))
                    ELSE [c EXCEPT !.pc = "get"]]
    /\ UNCHANGED <<fn, reply, version, now, lastRequestTime, files, entries, nextUUID, txLog, outLog>>

\* lines 180-184: FetchRawHTML (http.Get, lines 130-138); uuid.New
S_Fetch(p, resp) ==
    /\ cap[p].pc = "get"
    /\ outLog' = Push(outLog, Req(p, "get", Zero, FALSE, FALSE))
    /\ LET f == Fetched(resp)
           c == [cap[p] EXCEPT !.status = resp.status, !.fetchedURL = cap[p].urlToArchive,
                               !.htmlTries = @ + 1]
       IN IF f.err
          THEN /\ cap' = [cap EXCEPT ![p] = Done(c, Result("FetchErr", f.code, FALSE))]
               /\ UNCHANGED nextUUID
          ELSE /\ cap' = [cap EXCEPT ![p] =
                            [c EXCEPT !.entryUUID = NewUUID(nextUUID),
                                      !.htmlContent = f.body,
                                      !.pc = "s_write"]]
               /\ nextUUID' = nextUUID + 1
    /\ UNCHANGED <<fn, reply, version, now, lastRequestTime, files, entries, txLog>>

\* lines 185-186
S_WriteHTML(p, wr) ==
    /\ cap[p].pc = "s_write"
    /\ LET c == cap[p]
           path == htmlFilePath(c.entryUUID)
       IN /\ files' = WriteFile(files, path, c.htmlContent, wr)
          /\ cap' = [cap EXCEPT ![p] =
                       IF WriteFailed(wr)
                       THEN Done(Wrote(c, path, wr), Result("WriteErr", 0, FALSE))
                       ELSE [Wrote(c, path, wr) EXCEPT !.pc = "capture"]]
    /\ UNCHANGED <<fn, reply, version, now, lastRequestTime, entries, nextUUID, txLog, outLog>>

\* What chromedp.Run may do within chromedpTimeout
RunOutcomes == {"ok", "error", "timeout", "empty"}

\* CaptureSPA, lines 140-176: the error it returns (TRUE) or nil (FALSE)
CaptureFails(run, wr) == run # "ok" \/ wr # "ok"

\* Variant of CaptureSPA that writes whatever the browser task left in buf
C18_WriteAnyway(run) == TRUE

\* lines 165-171: os.WriteFile is reached only when chromedp.Run returned
\* nil and the image is not empty
CaptureWrites(run) == run = "ok"

\* Variant of ArchiveURL that writes the HTML file once more after the
\* first screenshot attempt, and then captures again
C27_WriteAfterCapture(c, failed) ==
    IF c.shotTries < 2 THEN [c EXCEPT !.pc = "s_write"] ELSE [c EXCEPT !.pc = "s_persist"]

\* Variant of ArchiveURL that returns the error of CaptureSPA
C17_FailOnCapture(c, failed) ==
    IF failed THEN Done(c, Result("ShotErr", 0, FALSE)) ELSE [c EXCEPT !.pc = "s_persist"]

\* lines 189-191: the error of CaptureSPA is logged, ArchiveURL goes on
AfterCapture(c, failed) == [c EXCEPT !.pc = "s_persist"]

\* lines 187-191: CaptureSPA; its error is logged and dropped
S_Capture(p, run, wr) ==
    /\ cap[p].pc = "capture"
    /\ LET c == [cap[p] EXCEPT !.run = run, !.shotTries = @ + 1]
           path == screenshotFilePath(c.entryUUID)
           failed == CaptureFails(run, wr)
           d == IF failed THEN [c EXCEPT !.degraded = @ \cup {"shot"}] ELSE c
       IN IF CaptureWrites(run)
          THEN /\ files' = WriteFile(files, path, JpegBytes, wr)
               /\ cap' = [cap EXCEPT ![p] = AfterCapture(Wrote(d, path, wr), failed)]
          ELSE /\ cap' = [cap EXCEPT ![p] = AfterCapture(d, failed)]
               /\ UNCHANGED files
    /\ UNCHANGED <<fn, reply, version, now, lastRequestTime, entries, nextUUID, txLog, outLog>>

\* lines 192-201
S_Persist(p, dbOk, rmOk) ==
    /\ cap[p].pc = "s_persist"
    /\ LET c == cap[p]
           path == htmlFilePath(c.entryUUID)
       IN IF dbOk
          THEN /\ entries' = entries \cup
                     {Entry(p, c.urlToArchive, path, screenshotFilePath(c.entryUUID))}
               /\ cap' = [cap EXCEPT ![p] =
                            Done([c EXCEPT !.creates = @ + 1], Result("ok", 0, FALSE))]
               /\ UNCHANGED files
          ELSE /\ files' = CreateFailed(files, path, rmOk)
               /\ cap' = [cap EXCEPT ![p] = Done(c, Result("PersistErr", 0, rmOk))]
               /\ UNCHANGED entries
    /\ UNCHANGED <<fn, reply, version, now, lastRequestTime, nextUUID, txLog, outLog>>

-----------------------------------------------------------------------------
(* The specifications *)

Active(c) == {p \in Procs : c[p].pc \notin {"idle", "done"}}

\* The inputs of a plain invocation: a direct URL, a page with at most one asset
SimpleURLs == {PageURL}

SimpleBodies == {EmptyBody, OneAssetBody}

\* The asset of a plain invocation is missing or is an image
SimpleAssetResponses == {Response("none", 404, <<>>), Response("none", StatusOK, PngBytes)}

\* In Spec invocation "c1" is arbitrary and the other one is plain
URLsOf(p) == IF p = "c1" THEN CallerURLs ELSE SimpleURLs

BodiesOf(p) == IF p = "c1" THEN Bodies ELSE SimpleBodies

\* One invocation at a time: an arbitrary one and a plain one, in either order
Next ==
    \/ Tick
    \/ \E p \in Procs :
        \/ \E u \in URLsOf(p), dirsOk \in BOOLEAN : Active(cap) = {} /\ A_Start(p, u, dirsOk)
        \/ \E ok \in BOOLEAN : A_Prime(p, ok)
        \/ A_PrimeWake(p)
        \/ WaitRead(p)
        \/ WaitWake(p)
        \/ WaitStamp(p)
        \/ \E o \in RedirectOutcomes(cap[p].urlToArchive) : A_GNewsResp(p, o)
        \/ \E o \in RedirectOutcomes(cap[p].urlToArchive) : A_Resolve(p, o)
        \/ \E resp \in HTMLResponses(BodiesOf(p)) : A_HTMLResp(p, resp)
        \/ \E resp \in AssetResponses, wr \in WriteOutcomes : A_AssetResp(p, resp, wr)
        \/ \E wr \in WriteOutcomes : A_WriteHTML(p, wr)
        \/ \E dbOk \in BOOLEAN, rmOk \in BOOLEAN : A_Persist(p, dbOk, rmOk)
        \/ \E u \in URLsOf(p), dirsOk \in BOOLEAN : Active(cap) = {} /\ S_Start(p, u, dirsOk)
        \/ \E resp \in HTMLResponses(BodiesOf(p)) : S_Fetch(p, resp)
        \/ \E wr \in WriteOutcomes : S_WriteHTML(p, wr)
        \/ \E run \in RunOutcomes, wr \in WriteOutcomes : S_Capture(p, run, wr)
        \/ \E dbOk \in BOOLEAN, rmOk \in BOOLEAN : S_Persist(p, dbOk, rmOk)

Spec == Init /\ [][Next]_vars

\* Two plain invocations, concurrently
ConcNext ==
    \/ Tick
    \/ \E p \in Procs :
        \/ \E u \in SimpleURLs, dirsOk \in BOOLEAN : A_Start(p, u, dirsOk)
        \/ WaitRead(p)
        \/ WaitWake(p)
        \/ WaitStamp(p)
        \/ \E resp \in HTMLResponses(SimpleBodies) : A_HTMLResp(p, resp)
        \/ \E resp \in SimpleAssetResponses, wr \in WriteOutcomes : A_AssetResp(p, resp, wr)
        \/ \E wr \in WriteOutcomes : A_WriteHTML(p, wr)
        \/ \E dbOk \in BOOLEAN, rmOk \in BOOLEAN : A_Persist(p, dbOk, rmOk)
        \/ \E u \in SimpleURLs, dirsOk \in BOOLEAN : S_Start(p, u, dirsOk)
        \/ \E resp \in HTMLResponses(SimpleBodies) : S_Fetch(p, resp)
        \/ \E wr \in WriteOutcomes : S_WriteHTML(p, wr)
        \/ \E run \in RunOutcomes, wr \in WriteOutcomes : S_Capture(p, run, wr)
        \/ \E dbOk \in BOOLEAN, rmOk \in BOOLEAN : S_Persist(p, dbOk, rmOk)

ConcSpec == Init /\ [][ConcNext]_vars

\* Two plain invocations, one after the other, in either order
SeqNext ==
    \/ Tick
    \/ \E p \in Procs :
        \/ \E u \in SimpleURLs, dirsOk \in BOOLEAN : Active(cap) = {} /\ A_Start(p, u, dirsOk)
        \/ WaitRead(p)
        \/ WaitWake(p)
        \/ WaitStamp(p)
        \/ \E resp \in HTMLResponses(SimpleBodies) : A_HTMLResp(p, resp)
        \/ \E resp \in SimpleAssetResponses, wr \in WriteOutcomes : A_AssetResp(p, resp, wr)
        \/ \E wr \in WriteOutcomes : A_WriteHTML(p, wr)
        \/ \E dbOk \in BOOLEAN, rmOk \in BOOLEAN : A_Persist(p, dbOk, rmOk)
        \/ \E u \in SimpleURLs, dirsOk \in BOOLEAN : Active(cap) = {} /\ S_Start(p, u, dirsOk)
        \/ \E resp \in HTMLResponses(SimpleBodies) : S_Fetch(p, resp)
        \/ \E wr \in WriteOutcomes : S_WriteHTML(p, wr)
        \/ \E run \in RunOutcomes, wr \in WriteOutcomes : S_Capture(p, run, wr)
        \/ \E dbOk \in BOOLEAN, rmOk \in BOOLEAN : S_Persist(p, dbOk, rmOk)

SeqSpec == Init /\ [][SeqNext]_vars

-----------------------------------------------------------------------------
(* The pure functions of the package, called on their own.  They keep no   *)
(* state, so a behaviour of FnSpec is one call.                            *)

\* Bounds of the inputs: the length of a document, in nodes
MaxNodes == 2

\* An element that is no sub-resource, an empty attribute, every asset tag
FnNodes ==
    {TextNode, Elem("a", AbsPng), Elem("link", NoRef), Elem("img", AbsPng),
     Elem("img", DataRef), Elem("script", RelJs), Elem("iframe", RelJs), Elem("link", RelJs)}

SeqsUpTo(S, n) == UNION {[1..k -> S] : k \in 0..n}

FnBodies == SeqsUpTo(FnNodes, MaxNodes)

FnBases == {PageURL, ShortURL}

FnUUIDs == {"u1", "u2"}

\* Bound of the inputs: the length of a content without signature, in bytes
MaxBytes == 3

\* A control character, a newline, a letter, a byte above 127
FnBytes == {0, 10, 104, 200}

GifBytes == <<71, 73, 70, 56>>

\* Contents without signature, signatures cut short, signatures followed by
\* at most one byte
FnContents ==
    SeqsUpTo(FnBytes, MaxBytes)
    \cup {SubSeq(sig, 1, k) : sig \in {PngBytes, JpegBytes, GifBytes}, k \in 1..4}
    \cup {sig \o <<b>> : sig \in {PngBytes, JpegBytes, GifBytes}, b \in FnBytes}

FnAssetURLs ==
    {AbsPng, MkRef("http", "example.com", "/b", ".js"), MkRef("http", "example.com", "/c", ".css"),
     MkRef("http", "example.com", "/B", ".JS"), MkRef("http", "example.com", "/img", "")}

\* validateAssetContent, called as on line 635
F_Validate(content, assetURL) ==
    /\ fn = NoCall
    /\ fn' = [op |-> "validate", content |-> content, assetURL |-> assetURL,
              ok |-> validateAssetContent(content, assetURL)]
    /\ UNCHANGED <<reply, version, now, lastRequestTime, files, entries, nextUUID, cap, txLog, outLog>>

\* The two passes ArchiveURL makes over one document (lines 618 and 652)
F_Passes(body, base, uuid) ==
    /\ fn = NoCall
    /\ fn' = [op |-> "passes", body |-> body, base |-> base, uuid |-> uuid,
              assets |-> extractAssetsFromHTML(body, base),
              html |-> modifyHTMLPaths(body, uuid, base)]
    /\ UNCHANGED <<reply, version, now, lastRequestTime, files, entries, nextUUID, cap, txLog, outLog>>

\* The whole of extractFinalURLFromGoogleNews, lines 334-368, when every
\* GET of the link is answered by outcome (line 367 asks again for the link
\* that line 346 asked for)
extractFinalURLFromGoogleNews(googleNewsURL, outcome) ==
    LET r == resolveRedirectsWithReferer(outcome)
        g == GNewsStep(googleNewsURL, r)
    IN IF Contains(googleNewsURL, "news.google.com") /\ g.ret THEN Ok(g.url) ELSE r

GNewsLink(v) == MkURL("news.google.com", "", <<v>>)

\* The links resolved on their own: a page, a shortener link, aggregator
\* links without and with a url parameter, whose value is a page, a blocked
\* page, a shortener link, or holds a plus sign or a percent sign
FnLinks ==
    {PageURL, ShortURL, GNewsURL, GNewsQURL, GNewsLink(CaptchaURL), GNewsLink(ShortURL),
     GNewsLink(Escaped(PageURL, "+")), GNewsLink(Escaped(PageURL, "%20")),
     GNewsLink(Escaped(PageURL, "%"))}

\* A shortener link may also lead to an aggregator link
FnOutcomes(u) == RedirectOutcomes(u) \cup {Landed(GNewsQURL)}

\* What the network, answering as before, may answer when the result of a
\* resolution that was answered by outcome is resolved in turn: the same for
\* the same link, the URL itself for a URL that redirects ended at, anything
\* for a URL that was never asked for
StableOutcomes(u, outcome, first) ==
    IF first.err THEN {NetErr}
    ELSE IF first.url = u THEN {outcome}
    ELSE IF ~outcome.neterr /\ first.url = outcome.final THEN {Landed(first.url)}
    ELSE FnOutcomes(first.url)

\* extractFinalURLFromGoogleNews, called as on line 599, and called again
\* on the URL it returned
F_Resolve(u, outcome, again) ==
    /\ fn = NoCall
    /\ LET first == extractFinalURLFromGoogleNews(u, outcome)
       IN /\ again \in StableOutcomes(u, outcome, first)
          /\ fn' = [op |-> "resolve", url |-> u, answer |-> outcome, first |-> first,
                    again |-> again,
                    second |-> IF first.err THEN Err
                               ELSE extractFinalURLFromGoogleNews(first.url, again)]
    /\ UNCHANGED <<reply, version, now, lastRequestTime, files, entries, nextUUID, cap, txLog, outLog>>

\* Every outcome a second resolution may be answered with
FnAnswers == UNION {FnOutcomes(u) : u \in FnLinks \cup {v.final : v \in UNION {FnOutcomes(w) : w \in FnLinks}}}
                \cup UNION {FnOutcomes(QueryUnescape(u.q[1]).url) :
                               u \in {w \in FnLinks : w.q # <<>> /\ ~QueryUnescape(w.q[1]).err}}

FnNext ==
    \/ \E body \in FnBodies, base \in FnBases, uuid \in FnUUIDs : F_Passes(body, base, uuid)
    \/ \E content \in FnContents, assetURL \in FnAssetURLs : F_Validate(content, assetURL)
    \/ \E u \in FnLinks : \E outcome \in FnOutcomes(u), again \in FnAnswers :
          F_Resolve(u, outcome, again)

FnSpec == Init /\ [][FnNext]_vars

-----------------------------------------------------------------------------
(* The retrieval handlers, src/handlers/archive_handlers.go *)

StatusNotFound == 404

Reply(h, id, status, body) == [handler |-> h, id |-> id, status |-> status, body |-> body]

\* The ids a client may ask for: that of the record, and one of no record
RequestIDs == 1..2

\* Variant of the handlers that sends the file without os.Stat
C19_SendBlind(h, id, fs, path) ==
    Reply(h, id, StatusOK, IF Exists(fs, path) THEN fs[path] ELSE <<>>)

\* lines 92-106 and 129-143: the answer for a record that was found
ServeFile(h, id, fs, path) ==
    IF path = NoPath THEN Reply(h, id, StatusNotFound, <<>>)
    ELSE IF ~Exists(fs, path) THEN Reply(h, id, StatusNotFound, <<>>)
    ELSE Reply(h, id, StatusOK, fs[path])

\* lines 84-90 and 120-126: the query; any error of it is answered 404
\* lines 92 and 129: the path of the record that the handler serves
PathOf(h, e) == IF h = "content" THEN e.StoragePath ELSE e.ScreenshotPath

Lookup(h, id, dbOk) ==
    LET found == {e \in entries : e.ID = id}
    IN IF ~dbOk \/ found = {} THEN Reply(h, id, StatusNotFound, <<>>)
       ELSE ServeFile(h, id, files, PathOf(h, CHOOSE e \in found : TRUE))

\* GetArchiveContent, lines 75-107
H_GetContent(id, dbOk) ==
    /\ reply' = Lookup("content", id, dbOk)
    /\ UNCHANGED <<fn, version, now, lastRequestTime, files, entries, nextUUID, cap, txLog, outLog>>

\* GetArchiveScreenshot, lines 111-144
H_GetScreenshot(id, dbOk) ==
    /\ reply' = Lookup("screenshot", id, dbOk)
    /\ UNCHANGED <<fn, version, now, lastRequestTime, files, entries, nextUUID, cap, txLog, outLog>>

\* Someone removes a file that a record names, while no capture runs
E_DeleteFile(path) ==
    /\ Active(cap) = {}
    /\ Exists(files, path)
    /\ files' = Remove(files, path, TRUE)
    /\ UNCHANGED <<fn, reply, version, now, lastRequestTime, entries, nextUUID, cap, txLog, outLog>>

\* The invocation that runs in ServeSpec
ServeProcs == {"c1"}

\* A plain invocation, the loss of a file of its record, and retrievals
ServeNext ==
    \/ Tick
    \/ \E id \in RequestIDs, dbOk \in BOOLEAN : Active(cap) = {} /\ H_GetContent(id, dbOk)
    \/ \E id \in RequestIDs, dbOk \in BOOLEAN : Active(cap) = {} /\ H_GetScreenshot(id, dbOk)
    \/ \E e \in entries : \E path \in {e.StoragePath, e.ScreenshotPath} : E_DeleteFile(path)
    \/ \E p \in ServeProcs :
        \/ \E u \in SimpleURLs, dirsOk \in BOOLEAN : Active(cap) = {} /\ A_Start(p, u, dirsOk)
        \/ WaitRead(p)
        \/ WaitWake(p)
        \/ WaitStamp(p)
        \/ \E resp \in HTMLResponses(SimpleBodies) : A_HTMLResp(p, resp)
        \/ \E resp \in SimpleAssetResponses, wr \in WriteOutcomes : A_AssetResp(p, resp, wr)
        \/ \E wr \in WriteOutcomes : A_WriteHTML(p, wr)
        \/ \E dbOk \in BOOLEAN, rmOk \in BOOLEAN : A_Persist(p, dbOk, rmOk)
        \/ \E u \in SimpleURLs, dirsOk \in BOOLEAN : Active(cap) = {} /\ S_Start(p, u, dirsOk)
        \/ \E resp \in HTMLResponses(SimpleBodies) : S_Fetch(p, resp)
        \/ \E wr \in WriteOutcomes : S_WriteHTML(p, wr)
        \/ \E run \in RunOutcomes, wr \in WriteOutcomes : S_Capture(p, run, wr)
        \/ \E dbOk \in BOOLEAN, rmOk \in BOOLEAN : S_Persist(p, dbOk, rmOk)

ServeSpec == Init /\ [][ServeNext]_vars

-----------------------------------------------------------------------------
(* A capture of a page that names one sub-resource more than once *)

AbsJs == MkRef("http", "example.com", "/b", ".js")

\* The same script, by a relative and by an absolute reference: both
\* resolve to AbsJs against PageURL
DupBody == <<Elem("script", RelJs), Elem("script", AbsJs)>>

\* The same image twice, and another sub-resource
DupImgBody == <<Elem("img", AbsPng), Elem("script", RelJs), Elem("img", AbsPng)>>

DupBodies == {DupBody, DupImgBody, OneAssetBody}

DupNext ==
    \/ Tick
    \/ \E p \in ServeProcs :
        \/ \E u \in SimpleURLs, dirsOk \in BOOLEAN : A_Start(p, u, dirsOk)
        \/ WaitRead(p)
        \/ WaitWake(p)
        \/ WaitStamp(p)
        \/ \E resp \in HTMLResponses(DupBodies) : A_HTMLResp(p, resp)
        \/ \E resp \in AssetResponses, wr \in WriteOutcomes : A_AssetResp(p, resp, wr)
        \/ \E wr \in WriteOutcomes : A_WriteHTML(p, wr)
        \/ \E dbOk \in BOOLEAN, rmOk \in BOOLEAN : A_Persist(p, dbOk, rmOk)

DupSpec == Init /\ [][DupNext]_vars

-----------------------------------------------------------------------------
(* One invocation that is scheduled again and again, whose requests are    *)
(* answered or time out, and whose browser task ends or times out          *)

\* The pages of an invocation in LiveSpec: a link that is resolved first
\* leads to a page with at most one asset, so that the last request of the
\* invocation is sent before MaxTime
LiveBodies(p) == IF cap[p].urlToArchive = PageURL THEN Bodies ELSE SimpleBodies

\* The steps of invocation p after its call
LiveStep(p) ==
    \/ \E ok \in BOOLEAN : A_Prime(p, ok)
    \/ A_PrimeWake(p)
    \/ WaitRead(p)
    \/ WaitWake(p)
    \/ WaitStamp(p)
    \/ \E o \in RedirectOutcomes(cap[p].urlToArchive) : A_GNewsResp(p, o)
    \/ \E o \in RedirectOutcomes(cap[p].urlToArchive) : A_Resolve(p, o)
    \/ \E resp \in HTMLResponses(LiveBodies(p)) : A_HTMLResp(p, resp)
    \/ \E resp \in AssetResponses, wr \in WriteOutcomes : A_AssetResp(p, resp, wr)
    \/ \E wr \in WriteOutcomes : A_WriteHTML(p, wr)
    \/ \E dbOk \in BOOLEAN, rmOk \in BOOLEAN : A_Persist(p, dbOk, rmOk)
    \/ \E resp \in HTMLResponses(LiveBodies(p)) : S_Fetch(p, resp)
    \/ \E wr \in WriteOutcomes : S_WriteHTML(p, wr)
    \/ \E run \in RunOutcomes, wr \in WriteOutcomes : S_Capture(p, run, wr)
    \/ \E dbOk \in BOOLEAN, rmOk \in BOOLEAN : S_Persist(p, dbOk, rmOk)

LiveNext ==
    \/ Tick
    \/ \E p \in ServeProcs :
        \/ \E u \in CallerURLs, dirsOk \in BOOLEAN : A_Start(p, u, dirsOk)
        \/ \E u \in CallerURLs, dirsOk \in BOOLEAN : S_Start(p, u, dirsOk)
        \/ LiveStep(p)

\* One invocation with arbitrary inputs
OneSpec == Init /\ [][LiveNext]_vars

\* Time passes, and the invocation takes its next step when it can: the
\* client's timeout and the timeout of the browser task end every wait for
\* an answer (a NetErr or "net" answer, a "timeout" run)
LiveSpec ==
    /\ Init
    /\ [][LiveNext]_vars
    /\ WF_vars(Tick)
    /\ \A p \in ServeProcs : WF_vars(LiveStep(p))

-----------------------------------------------------------------------------
(* The handlers of POST /api/archive and GET /api/archive/:id,             *)
(* src/handlers/archive_handlers.go                                        *)

StatusBadRequest == 400

StatusCreated == 201

StatusInternalServerError == 500

\* The body of a POST: text that is not JSON, or an object with its url
\* member (NoURLYet for the empty string)
BadJSON == [parsed |-> FALSE, url |-> NoURLYet]

Payload(u) == [parsed |-> TRUE, url |-> u]

Payloads == {BadJSON, Payload(NoURLYet), Payload(PageURL)}

CreateReply(payload, status) == [handler |-> "create", payload |-> payload, status |-> status]

\* Variant of CreateArchive without the test of the url member
C26_AcceptEmptyURL(payload) == ~payload.parsed

\* lines 20-31: the payload for which CreateArchive answers 400
PayloadRejected(payload) == ~payload.parsed \/ payload.url = NoURLYet

\* CreateArchive, lines 19-33: the payload is rejected, or storage.ArchiveURL
\* is entered (the handler then waits for it to return)
H_CreateArchive(p, payload, dirsOk) ==
    IF PayloadRejected(payload)
    THEN /\ reply' = CreateReply(payload, StatusBadRequest)
         /\ UNCHANGED <<fn, version, now, lastRequestTime, files, entries, nextUUID, cap, txLog, outLog>>
    ELSE \/ A_Start(p, payload.url, dirsOk)
         \/ S_Start(p, payload.url, dirsOk)

\* CreateArchive, lines 33-40: storage.ArchiveURL has returned
H_CreateReturn(p) ==
    /\ cap[p].pc = "done"
    /\ reply' = CreateReply(Payload(cap[p].urlToArchive),
                            IF cap[p].result.kind = "ok" THEN StatusCreated
                            ELSE StatusInternalServerError)
    /\ cap' = [cap EXCEPT ![p].pc = "replied"]
    /\ UNCHANGED <<fn, version, now, lastRequestTime, files, entries, nextUUID, txLog, outLog>>

\* The id parameter of a GET: a decimal numeral (of n) or another word,
\* such as "invalid-id".  The router matches no empty parameter.
Numeral(n) == [kind |-> "numeral", n |-> n]

Word == [kind |-> "word", n |-> 0]

IDParams == {Numeral(1), Numeral(2), Word}

DetailsReply(param, status, found) ==
    [handler |-> "details", param |-> param, status |-> status, found |-> found]

\* GetArchiveDetails, lines 56-72: the id is compared with the key of every
\* record (a word equals no key); any error of the query is answered 404
GetArchiveDetails(param, dbOk) ==
    LET found == {e \in entries : param.kind = "numeral" /\ e.ID = param.n}
    IN IF ~dbOk \/ found = {} THEN DetailsReply(param, StatusNotFound, {})
       ELSE DetailsReply(param, StatusOK, found)

H_GetDetails(param, dbOk) ==
    /\ reply' = GetArchiveDetails(param, dbOk)
    /\ UNCHANGED <<fn, version, now, lastRequestTime, files, entries, nextUUID, cap, txLog, outLog>>

\* One POST, answered at once or after its capture, and GETs of the details
ApiNext ==
    \/ Tick
    \/ \E param \in IDParams, dbOk \in BOOLEAN : H_GetDetails(param, dbOk)
    \/ \E p \in ServeProcs :
        \/ \E payload \in Payloads, dirsOk \in BOOLEAN : H_CreateArchive(p, payload, dirsOk)
        \/ H_CreateReturn(p)
        \/ WaitRead(p)
        \/ WaitWake(p)
        \/ WaitStamp(p)
        \/ \E resp \in HTMLResponses(SimpleBodies) : A_HTMLResp(p, resp)
        \/ \E resp \in SimpleAssetResponses, wr \in WriteOutcomes : A_AssetResp(p, resp, wr)
        \/ \E wr \in WriteOutcomes : A_WriteHTML(p, wr)
        \/ \E dbOk \in BOOLEAN, rmOk \in BOOLEAN : A_Persist(p, dbOk, rmOk)
        \/ \E resp \in HTMLResponses(SimpleBodies) : S_Fetch(p, resp)
        \/ \E wr \in WriteOutcomes : S_WriteHTML(p, wr)
        \/ \E run \in RunOutcomes, wr \in WriteOutcomes : S_Capture(p, run, wr)
        \/ \E dbOk \in BOOLEAN, rmOk \in BOOLEAN : S_Persist(p, dbOk, rmOk)

ApiSpec == Init /\ [][ApiNext]_vars

-----------------------------------------------------------------------------
(* Properties of the capture pipeline *)

Finished(p) == cap[p].pc = "done"

Failed(p) == Finished(p) /\ cap[p].result.kind # "ok"

EntriesBy(p) == {e \in entries : e.by = p}

\* The files an invocation created that are still on disk
Residue(p) == cap[p].wrote \cap DOMAIN files

\* Time between the last two requests of a log
Gap(log) == log[2].t - log[1].t

\* C1: whenever ArchiveURL has returned an error, no entry of that capture
\* exists and none of the files that capture created is left on disk.
C1_AllOrNothing ==
    \A p \in Procs : Failed(p) => EntriesBy(p) = {} /\ Residue(p) = {}

\* C2: when db.Create failed after the HTML file was written, ArchiveURL
\* returns the persistence error with no entry, whether or not the deletion
\* of the HTML file succeeded; when it succeeded, the HTML file is gone.
C2_CompensatingCleanup ==
    \A p \in Procs :
        LET c == cap[p]
            path == htmlFilePath(c.entryUUID)
        IN c.result.kind = "PersistErr" =>
              /\ Finished(p)
              /\ EntriesBy(p) = {}
              /\ c.creates = 0
              /\ path \in c.wrote
              /\ c.result.removed <=> ~Exists(files, path)

C2_Witness ==
    \E p \in Procs :
        /\ cap[p].result.kind = "PersistErr"
        /\ cap[p].result.removed
        /\ ~Exists(files, htmlFilePath(cap[p].entryUUID))

\* C3: a capture whose primary fetch was answered with a non-2xx status has
\* returned an error that carries the status, has created no entry and has
\* written no file.
C3_NonSuccessStatus ==
    \A p \in Procs :
        LET c == cap[p]
        IN Finished(p) /\ c.status # 0 /\ c.status \notin 200..299 =>
              /\ c.result.kind = "FetchErr"
              /\ c.result.code = c.status
              /\ EntriesBy(p) = {}
              /\ c.entryUUID = ""
              /\ c.wrote = {}

C3_Witness ==
    \E p \in Procs :
        /\ Finished(p)
        /\ cap[p].status = 404
        /\ cap[p].result.code = 404
        /\ entries # {}

\* C4, as stated: ArchiveURL returns an error only for a failed primary fetch
\* or a failed db.Create.
C4_OnlyFetchOrPersist ==
    \A p \in Procs : Failed(p) => cap[p].result.kind \in {"FetchErr", "PersistErr"}

\* C4, amended: ArchiveURL returns an error only when the storage
\* directories cannot be created, the primary fetch fails, the HTML file
\* cannot be written or db.Create fails; a capture whose redirect
\* resolution, assets or screenshot failed still creates its entry when none
\* of these four steps fails.
C4_FatalSteps ==
    \A p \in Procs :
        LET c == cap[p]
        IN /\ Failed(p) => c.result.kind \in {"DirsErr", "FetchErr", "WriteErr", "PersistErr"}
           /\ c.result.kind = "DirsErr" => c.fetchedURL = NoURLYet
           /\ c.result.kind = "FetchErr" => c.fetchedURL # NoURLYet /\ c.entryUUID = ""
           /\ c.result.kind = "WriteErr" =>
                 c.entryUUID # "" /\ (Exists(files, htmlFilePath(c.entryUUID)) =>
                                         files[htmlFilePath(c.entryUUID)] = <<>>)
           /\ c.result.kind = "ok" <=> c.creates = 1

C4_Witness ==
    \E p \in Procs :
        /\ cap[p].result.kind = "ok"
        /\ {"resolve", "asset"} \subseteq cap[p].degraded

\* C5: an invocation creates at most one record, as its last step, with its
\* HTML file written before; an invocation whose fetch or HTML file write
\* failed creates none.
C5_RecordLast ==
    \A p \in Procs :
        LET c == cap[p]
        IN /\ c.creates <= 1
           /\ Cardinality(EntriesBy(p)) = c.creates
           /\ c.creates = 1 =>
                 /\ Finished(p)
                 /\ c.result.kind = "ok"
                 /\ htmlFilePath(c.entryUUID) \in c.wrote
                 /\ \A e \in EntriesBy(p) : e.StoragePath = htmlFilePath(c.entryUUID)
           /\ c.result.kind \in {"FetchErr", "WriteErr"} => c.creates = 0

C5_Witness ==
    \E p \in Procs :
        /\ cap[p].creates = 1
        /\ Cardinality(cap[p].wrote) = 3

\* C6: the file named by the StoragePath of every record exists, and is not
\* empty when the fetched body was not empty, whatever other invocations do
\* at the same time.
C6_StoragePathExists ==
    \A e \in entries :
        /\ Exists(files, e.StoragePath)
        /\ cap[e.by].htmlContent # <<>> => files[e.StoragePath] # <<>>

C6_Witness ==
    \E e \in entries, q \in Procs :
        /\ q # e.by
        /\ cap[e.by].htmlContent # <<>>
        /\ cap[q].result.kind \in {"WriteErr", "PersistErr"}
        /\ cap[q].entryUUID # ""

\* C7: with one invocation at a time, two consecutive requests sent through
\* waitBetweenRequests are at least requestDelay apart, and the request that
\* found lastRequestTime zero was sent without sleeping.
C7_SequentialSpacing ==
    /\ Len(txLog) = 2 => Gap(txLog) >= requestDelay
    /\ \A k \in DOMAIN txLog : txLog[k].seen = Zero => ~txLog[k].slept

C7_Witness ==
    /\ Len(txLog) = 2
    /\ txLog[1].p # txLog[2].p
    /\ ~txLog[1].slept
    /\ txLog[2].slept
    /\ Gap(txLog) = requestDelay

\* C8: every outbound request of the assets build is sent through
\* waitBetweenRequests (it updates lastRequestTime), no sooner than
\* requestDelay after the previous outbound request.
C8_EveryRequestLimited ==
    version = "assets" =>
        /\ \A k \in DOMAIN outLog : outLog[k].stamped
        /\ Len(outLog) = 2 => Gap(outLog) >= requestDelay

\* C9: two requests sent through waitBetweenRequests less than requestDelay
\* apart come from two invocations, the later of which read lastRequestTime
\* before the earlier wrote it.
C9_OnlyRaceBreaksSpacing ==
    Len(txLog) = 2 /\ Gap(txLog) < requestDelay =>
        /\ txLog[1].p # txLog[2].p
        /\ txLog[2].seen < txLog[1].t

\* Both invocations read the same lastRequestTime and sent their requests
\* less than requestDelay apart
C9_Witness ==
    /\ Len(txLog) = 2
    /\ txLog[1].p # txLog[2].p
    /\ txLog[1].seen = txLog[2].seen
    /\ txLog[1].seen # Zero
    /\ Gap(txLog) < requestDelay

\* C10: when redirect resolution returned an error, the capture goes on and
\* the primary fetch is sent to the caller's URL; a URL that carries a
\* block-page marker is never fetched.
C10_ResolutionNotFatal ==
    \A p \in Procs :
        LET c == cap[p]
        IN /\ "resolve" \in c.degraded =>
                /\ c.finalURL = c.urlToArchive
                /\ c.fetchedURL \in {NoURLYet, c.urlToArchive}
                /\ Finished(p) => c.fetchedURL = c.urlToArchive
           /\ ~Contains(c.fetchedURL, "sorry")
           /\ ~Contains(c.fetchedURL, "captcha")

C10_Witness ==
    \E p \in Procs :
        /\ "resolve" \in cap[p].degraded
        /\ cap[p].result.kind = "ok"
        /\ cap[p].fetchedURL = ShortURL

SameButLoop(c, d) ==
    \A f \in DOMAIN c \ {"pc", "i", "ret", "wrote", "degraded", "invalid"} : c[f] = d[f]

\* C12: whatever the fetch, the validation and the write of an asset did,
\* the loop goes on to the next reference (or, after the last one, to the
\* rewrite), changes no entry and no other file, and leaves every local the
\* rest of the capture depends on as it was; the stored HTML and the record
\* do not depend on what happened to the assets.
C12_AssetFailureIsLocal ==
    [][\A p \in Procs :
          LET c == cap[p]
              d == cap'[p]
          IN /\ c.pc = "asset_resp" /\ d # c =>
                  /\ SameButLoop(c, d)
                  /\ entries' = entries
                  /\ \A x \in DOMAIN files : x \in DOMAIN files' /\ files'[x] = files[x]
                  /\ DOMAIN files' \subseteq DOMAIN files \cup {assetFilePath(c.assets[c.i], c.entryUUID)}
                  /\ IF c.i < Len(c.assets)
                     THEN d.pc = "w_read" /\ d.ret = "asset" /\ d.i = c.i + 1
                     ELSE d.pc = "write_html"
             /\ version = "assets" /\ d.result.kind = "ok" =>
                  /\ files'[htmlFilePath(d.entryUUID)] =
                        modifyHTMLPaths(d.htmlContent, d.entryUUID, d.finalURL)
                  /\ \A e \in entries' : e.by = p =>
                        /\ e.URL = d.finalURL
                        /\ e.StoragePath = htmlFilePath(d.entryUUID)
                        /\ e.ScreenshotPath = NoPath]_vars

\* The first of two assets failed, the second was saved, the capture succeeded
C12_Witness ==
    \E p \in Procs :
        /\ cap[p].result.kind = "ok"
        /\ cap[p].htmlContent = TwoAssetBody
        /\ "asset" \in cap[p].degraded
        /\ cap[p].wrote =
              {htmlFilePath(cap[p].entryUUID), assetFilePath(AbsPng, cap[p].entryUUID)}
        /\ cap[p].wrote \subseteq DOMAIN files

\* The attribute values of the HTML stored for invocation p
StoredRefs(p) == {n.val : n \in Range(files[htmlFilePath(cap[p].entryUUID)])}

\* C13: for every asset reference whose fetched content failed validation no
\* file is written in the assets directory, and the attribute in the stored
\* HTML is rewritten to the local path of that missing file all the same.
C13_InvalidAssetNotSaved ==
    \A p \in Procs : \A r \in cap[p].invalid :
        LET name == generateAssetFileName(r, cap[p].entryUUID)
        IN /\ ~Exists(files, Join(assetsDir, name))
           /\ cap[p].result.kind = "ok" =>
                 /\ LocalRef(name) \in StoredRefs(p)
                 /\ r \notin StoredRefs(p)

C13_Witness ==
    \E p \in Procs :
        /\ cap[p].result.kind = "ok"
        /\ cap[p].invalid = {AbsPng}
        /\ LocalRef(generateAssetFileName(AbsPng, cap[p].entryUUID)) \in StoredRefs(p)
        /\ ~Exists(files, assetFilePath(AbsPng, cap[p].entryUUID))

\* The rewritten document without what html.Render added in front
Rewritten == Tail(fn.html)

IsLocal(n) == n.val.scheme = "local"

\* C14: over one document and one capture id, the file names under which the
\* extracted assets are saved are, in order, the names put into the
\* rewritten attributes; a node is left as it was by the rewrite exactly
\* when the extraction took no asset from it.
C14_TwoPassConsistency ==
    fn.op = "passes" =>
        LET saved == [k \in DOMAIN fn.assets |->
                         LocalRef(generateAssetFileName(fn.assets[k], fn.uuid))]
            placed == SelectSeq(Rewritten, IsLocal)
        IN /\ Len(Rewritten) = Len(fn.body)
           /\ [k \in DOMAIN placed |-> placed[k].val] = saved
           /\ \A k \in DOMAIN fn.body :
                 LET taken == extractAssetsFromHTML(<<fn.body[k]>>, fn.base)
                 IN IF taken = <<>>
                    THEN Rewritten[k] = fn.body[k]
                    ELSE Rewritten[k].val =
                            LocalRef(generateAssetFileName(taken[1], fn.uuid))

\* A relative and an absolute reference, both extracted and rewritten
C14_Witness ==
    /\ fn.op = "passes"
    /\ fn.body = <<Elem("script", RelJs), Elem("img", AbsPng)>>
    /\ fn.base = ShortURL
    /\ Len(fn.assets) = 2
    /\ Rewritten[1].val = LocalRef(fn.uuid \o "_8f27d6c2.js")

\* A content of at least 4 bytes that begins with the PNG, JPEG or GIF signature
HasSignature(content) ==
    /\ Len(content) >= 4
    /\ \/ SubSeq(content, 1, 4) = <<137, 80, 78, 71>>
       \/ SubSeq(content, 1, 2) = <<255, 216>>
       \/ SubSeq(content, 1, 3) = <<71, 73, 70>>

IsTextType(assetURL) == ToLower(assetURL.ext) \in {".css", ".js"}

\* A control character other than newline, carriage return and tab
IsControl(b) == b < 32 /\ b \notin {9, 10, 13}

\* C15: a content without signature whose URL ends in .css or .js is
\* rejected when one of its first 500 bytes is a control character other
\* than newline, carriage return or tab, and accepted otherwise.
C15_ControlCharsRejected ==
    fn.op = "validate" /\ fn.content # <<>> /\ ~HasSignature(fn.content) /\ IsTextType(fn.assetURL) =>
        (fn.ok <=> \A k \in 1..min(ScanLimit, Len(fn.content)) : ~IsControl(fn.content[k]))

\* C16: validateAssetContent rejects the empty content, accepts a content
\* of at least 4 bytes that begins with a signature whatever the URL, and
\* accepts every other non-empty content whose URL does not end in .css or .js.
C16_ValidationRules ==
    fn.op = "validate" =>
        /\ fn.content = <<>> => ~fn.ok
        /\ HasSignature(fn.content) => fn.ok
        /\ fn.content # <<>> /\ ~IsTextType(fn.assetURL) => fn.ok

\* A PNG served for a style sheet URL, and so accepted by its signature
C16_Witness ==
    /\ fn.op = "validate"
    /\ fn.content = PngBytes \o <<0>>
    /\ fn.assetURL.ext = ".css"
    /\ fn.ok

\* C17: after a failed screenshot capture ArchiveURL goes on to db.Create and
\* returns no error but that of db.Create; the record it creates names the
\* screenshot path, whether or not a file exists there.
C17_ScreenshotFailureNotFatal ==
    \A p \in Procs :
        LET c == cap[p]
        IN /\ "shot" \in c.degraded =>
                /\ c.pc \in {"s_persist", "done"}
                /\ Finished(p) => c.result.kind \in {"ok", "PersistErr"}
           /\ version = "shot" =>
                \A e \in EntriesBy(p) :
                    e.ScreenshotPath = screenshotFilePath(c.entryUUID) /\ e.ScreenshotPath # NoPath

C17_Witness ==
    \E p \in Procs, e \in entries :
        /\ e.by = p
        /\ "shot" \in cap[p].degraded
        /\ cap[p].result.kind = "ok"
        /\ e.ScreenshotPath # NoPath
        /\ ~Exists(files, e.ScreenshotPath)

\* C18: when the browser task timed out (or failed, or produced an empty
\* image) CaptureSPA returned an error and there is no file at the output
\* path; a file is at the output path only after the task succeeded.
C18_NoFileOnTimeout ==
    \A p \in Procs :
        LET c == cap[p]
            path == screenshotFilePath(c.entryUUID)
        IN /\ c.run \in {"timeout", "error", "empty"} =>
                "shot" \in c.degraded /\ ~Exists(files, path)
           /\ c.entryUUID # "" /\ Exists(files, path) => c.run = "ok"

C18_Witness ==
    \E p \in Procs :
        /\ cap[p].run = "timeout"
        /\ Finished(p)
        /\ "shot" \in cap[p].degraded
        /\ ~Exists(files, screenshotFilePath(cap[p].entryUUID))

\* C19: a retrieval of the content or of the screenshot of a record whose
\* file is not on disk is answered 404 with no body, and no retrieval
\* starts a capture or changes a record or a file.
C19_MissingFileIs404 ==
    [][reply' # reply =>
          /\ UNCHANGED <<files, entries, cap, nextUUID, lastRequestTime, txLog, outLog>>
          /\ \A e \in entries : e.ID = reply'.id =>
                LET path == IF reply'.handler = "content" THEN e.StoragePath
                            ELSE e.ScreenshotPath
                IN ~Exists(files, path) =>
                       reply'.status = StatusNotFound /\ reply'.body = <<>>]_vars

\* The content of a record whose HTML file was removed has been asked for
C19_Witness ==
    \E e \in entries :
        /\ reply.handler = "content"
        /\ reply.id = e.ID
        /\ reply.status = StatusNotFound
        /\ e.StoragePath # NoPath
        /\ ~Exists(files, e.StoragePath)

\* C20: an invocation sends at most one request for the page, one request
\* for each occurrence of an asset reference, in the order of the
\* references, and calls CaptureSPA at most once, whatever failed.
C20_NoRetries ==
    \A p \in Procs :
        LET c == cap[p]
            refs == extractAssetsFromHTML(c.htmlContent, c.finalURL)
        IN /\ c.htmlTries <= 1
           /\ c.shotTries <= 1
           /\ Len(c.assetTries) <= Len(refs)
           /\ \A k \in DOMAIN c.assetTries : c.assetTries[k] = k
           /\ Finished(p) /\ c.entryUUID # "" /\ version = "assets" =>
                 Len(c.assetTries) = Len(refs)

\* Both assets of a page failed and each was asked for once
C20_Witness ==
    \E p \in Procs :
        /\ Finished(p)
        /\ cap[p].htmlContent = TwoAssetBody
        /\ cap[p].assetTries = <<1, 2>>
        /\ cap[p].wrote \cap DOMAIN files = {htmlFilePath(cap[p].entryUUID)}
        /\ "asset" \in cap[p].degraded

\* The paths a capture with id entryUUID may write: its HTML file, its
\* screenshot, and one asset file per extracted reference
PathsOf(c) ==
    {htmlFilePath(c.entryUUID), screenshotFilePath(c.entryUUID)}
    \cup {assetFilePath(a, c.entryUUID) :
             a \in Range(extractAssetsFromHTML(c.htmlContent, c.finalURL))}

\* C21: two captures, concurrent or not, of the same URL or not, have
\* different capture ids and have written no path in common; every path a
\* capture wrote is in one of the three storage directories under a name
\* that begins with its own capture id.
C21_DistinctPaths ==
    \A p \in Procs :
        /\ cap[p].wrote \subseteq PathsOf(cap[p])
        /\ cap[p].wrote # {} => cap[p].entryUUID # ""
        /\ \A q \in Procs \ {p} :
              /\ cap[p].entryUUID # "" => cap[p].entryUUID # cap[q].entryUUID
              /\ cap[p].wrote \cap cap[q].wrote = {}

\* Two captures of the same URL, both running, each with its HTML file and
\* its asset file or screenshot written
C21_Witness ==
    /\ \A p \in Procs :
          /\ cap[p].pc \in {"persist", "s_persist"}
          /\ cap[p].fetchedURL = PageURL
          /\ Cardinality(cap[p].wrote \cap DOMAIN files) = 2
    /\ cap["c1"].htmlContent = cap["c2"].htmlContent

\* The files that belong to the capture recorded by e and are on disk
FilesOf(e) == cap[e.by].wrote \cap DOMAIN files

\* C22: no step of ArchiveURL removes or changes a record that exists, or
\* removes or changes a file of the capture of such a record; a record that
\* a step adds has an id and a storage path that no earlier record has, also
\* when its URL was archived before.
C22_ArchiveIsAdditive ==
    [][/\ \A e \in entries :
             /\ e \in entries'
             /\ \A x \in FilesOf(e) : x \in DOMAIN files' /\ files'[x] = files[x]
       /\ \A n \in entries' \ entries :
             /\ entries' = entries \cup {n}
             /\ Exists(files', n.StoragePath)
             /\ \A e \in entries :
                   /\ n.ID # e.ID
                   /\ n.StoragePath # e.StoragePath
                   /\ cap'[n.by].wrote \cap cap[e.by].wrote = {}]_vars

\* The same URL archived twice: two records, each with its own files
C22_Witness ==
    \E e \in entries, n \in entries :
        /\ e.ID < n.ID
        /\ e.URL = n.URL
        /\ Exists(files, e.StoragePath)
        /\ Exists(files, n.StoragePath)
        /\ Cardinality(FilesOf(e) \cup FilesOf(n)) = 4

\* C23: when the resolution of a link returned a URL, the resolution of that
\* URL, answered by the same network, returns that URL again.
C23_ResolveIdempotent ==
    fn.op = "resolve" /\ ~fn.first.err => fn.second = fn.first

\* The GET of an aggregator link failed, or ended at a URL that matches the
\* aggregator pattern or holds a block-page marker
Unresolved(outcome) ==
    \/ outcome.neterr
    \/ Contains(outcome.final, "news.google.com")
    \/ Contains(outcome.final, "sorry")
    \/ Contains(outcome.final, "captcha")

\* C28: for an aggregator link whose redirect-follow failed or ended at an
\* aggregator or block page, the resolver returns the value of the link's
\* url parameter, percent-decoded, when the link has that parameter, and
\* the result of a plain redirect-follow only when it has none.
C28_FallbackToParameter ==
    fn.op = "resolve" /\ Contains(fn.url, "news.google.com") /\ Unresolved(fn.answer) =>
        IF fn.url.q # <<>> THEN fn.first = Ok(fn.url.q[1])
        ELSE fn.first = resolveRedirectsWithReferer(fn.answer)

\* C24: after a successful capture of a page from which no asset reference
\* is extracted, the HTML file of the capture holds the fetched body as it
\* was received (the empty file for an empty body).
C24_BodyStoredVerbatim ==
    \A p \in Procs :
        LET c == cap[p]
        IN c.result.kind = "ok" /\ extractAssetsFromHTML(c.htmlContent, c.finalURL) = <<>> =>
              /\ Exists(files, htmlFilePath(c.entryUUID))
              /\ files[htmlFilePath(c.entryUUID)] = c.htmlContent

\* C25: GET /api/archive/:id answers 400 when the id is not of the form of
\* an id, and 404 when it is of that form and no record has it.
C25_DetailsErrorCases ==
    reply.handler = "details" =>
        /\ reply.param.kind = "word" => reply.status = StatusBadRequest
        /\ reply.param.kind = "numeral" /\ reply.found = {} => reply.status = StatusNotFound

\* C26: POST /api/archive answers 400 to a body that is no JSON and to an
\* empty url, and that step sends no request, writes no file, creates no
\* record and starts no capture; every other POST is answered when its
\* capture has returned, 201 when it returned an entry and 500 when it
\* returned an error.
C26_CreateStatus ==
    [][/\ reply' # reply /\ reply'.handler = "create" =>
             IF ~reply'.payload.parsed \/ reply'.payload.url = NoURLYet
             THEN /\ reply'.status = StatusBadRequest
                  /\ UNCHANGED <<cap, files, entries, nextUUID, lastRequestTime, txLog, outLog>>
             ELSE \E p \in Procs :
                     /\ cap[p].pc = "done"
                     /\ cap'[p].pc = "replied"
                     /\ reply'.payload.url = cap[p].urlToArchive
                     /\ reply'.status = IF cap[p].result.kind = "ok" /\ EntriesBy(p) # {}
                                        THEN StatusCreated
                                        ELSE StatusInternalServerError
                     /\ UNCHANGED <<files, entries, nextUUID, lastRequestTime, txLog, outLog>>
       /\ \A p \in Procs :
             cap[p].pc = "idle" /\ cap'[p].pc # "idle" => cap'[p].urlToArchive # NoURLYet]_vars

\* An empty url was answered 400 after a capture had been answered 500
C26_Witness ==
    /\ reply = CreateReply(Payload(NoURLYet), StatusBadRequest)
    /\ \E p \in Procs : cap[p].pc = "replied" /\ cap[p].result.kind = "FetchErr"

\* The step of ArchiveURL an invocation is in: 1 redirect resolution, 2 the
\* primary fetch, 3 the asset loop, 4 the write of the HTML file, 5 the
\* screenshot, 6 db.Create, 7 returned
Phase(c) ==
    CASE c.pc = "idle" -> 0
      [] c.pc \in {"prime", "prime_sleep", "gnews_resp", "resolve"} -> 1
      [] c.pc \in {"w_read", "w_sleep", "w_stamp"} ->
            (CASE c.ret = "gnews" -> 1 [] c.ret = "html" -> 2 [] OTHER -> 3)
      [] c.pc \in {"html_resp", "get"} -> 2
      [] c.pc = "asset_resp" -> 3
      [] c.pc \in {"write_html", "s_write"} -> 4
      [] c.pc = "capture" -> 5
      [] c.pc \in {"persist", "s_persist"} -> 6
      [] OTHER -> 7

\* C27: an invocation never goes back to an earlier step, and within the
\* asset loop never to an earlier reference; a resolution request is sent
\* only before the primary fetch, an asset is requested or written only
\* before the HTML file is written, and CaptureSPA is called only after the
\* HTML file was written.
C27_LinearOrder ==
    [][\A p \in Procs :
          LET c == cap[p]
              d == cap'[p]
              html == htmlFilePath(c.entryUUID)
          IN /\ Phase(d) >= Phase(c)
             /\ Phase(c) = 3 /\ Phase(d) = 3 => d.i >= c.i
             /\ Phase(d) = 1 => d.htmlTries = 0
             /\ d.htmlTries # c.htmlTries => Phase(c) \in 0..2 /\ c.htmlTries = 0
             /\ d.assetTries # c.assetTries => html \notin c.wrote
             /\ (\E x \in d.wrote \ c.wrote : x # htmlFilePath(d.entryUUID)
                                              /\ x # screenshotFilePath(d.entryUUID))
                   => html \notin c.wrote
             /\ d.shotTries # c.shotTries =>
                   /\ c.shotTries = 0
                   /\ html \in c.wrote
                   /\ Exists(files, html)]_vars

\* A capture that went through the resolution of an aggregator link, the
\* fetch, the asset loop, the write and db.Create
C27_Witness ==
    \E p \in Procs :
        /\ cap[p].result.kind = "ok"
        /\ cap[p].urlToArchive = GNewsURL
        /\ "resolve" \notin cap[p].degraded
        /\ cap[p].fetchedURL = PageURL
        /\ cap[p].assetTries = <<1>>
        /\ Cardinality(cap[p].wrote) = 2

\* The nodes of a document that name a sub-resource
IsAssetNode(n, base) == n.tag \in AssetTags /\ resolveURL(base, n.val) # NoRef

\* C29: a capture that has gone through the asset loop has sent one request
\* for every occurrence of a reference, also of a URL that occurs more than
\* once; the occurrences of one URL are rewritten to one local name, and the
\* asset files the capture wrote are among the files of the distinct URLs,
\* one name for each URL however often it occurs.
C29_DuplicatesFetchedEach ==
    \A p \in Procs :
        LET c == cap[p]
            body == c.htmlContent
            occ == {k \in DOMAIN body : IsAssetNode(body[k], c.finalURL)}
            urls == {resolveURL(c.finalURL, body[k].val) : k \in occ}
            names == {assetFilePath(r, c.entryUUID) : r \in urls}
        IN version = "assets" /\ c.entryUUID # "" =>
              /\ Len(c.assetTries) <= Cardinality(occ)
              /\ c.wrote \ {htmlFilePath(c.entryUUID)} \subseteq names
              /\ Cardinality(names) = Cardinality(urls)
              /\ Phase(c) >= 4 => Len(c.assetTries) = Cardinality(occ)
              /\ c.result.kind = "ok" =>
                    LET stored == Tail(files[htmlFilePath(c.entryUUID)])
                    IN \A k \in occ, l \in occ :
                          resolveURL(c.finalURL, body[k].val) = resolveURL(c.finalURL, body[l].val)
                             => stored[k].val = stored[l].val

\* A script named twice was requested twice and is on disk once
C29_Witness ==
    \E p \in Procs :
        /\ cap[p].result.kind = "ok"
        /\ cap[p].htmlContent = DupBody
        /\ cap[p].assetTries = <<1, 2>>
        /\ cap[p].wrote \cap DOMAIN files =
              {htmlFilePath(cap[p].entryUUID), assetFilePath(AbsJs, cap[p].entryUUID)}

\* C30: an invocation of ArchiveURL that was called returns, and when it
\* returns after the asset loop it has asked for each extracted reference
\* once, in order.
C30_EventuallyReturns ==
    /\ \A p \in ServeProcs : cap[p].pc # "idle" ~> cap[p].pc = "done"
    /\ [](\A p \in ServeProcs :
             LET c == cap[p]
                 n == Len(extractAssetsFromHTML(c.htmlContent, c.finalURL))
             IN Finished(p) /\ version = "assets" /\ c.entryUUID # "" =>
                   c.assetTries = [k \in 1..n |-> k])

\* An invocation has returned after it slept before a request and asked
\* for two assets
C30_Witness ==
    \E p \in ServeProcs :
        /\ Finished(p)
        /\ cap[p].assetTries = <<1, 2>>
        /\ Len(txLog) = 2 /\ txLog[2].slept

====
